---- MODULE Spec2Model ----
(***************************************************************************)
(* Round-trip latency measurement tool: the Prober (udp_echo_client.py)    *)
(* and the Echo Responder (udp_echo_server.py), with the datagrams in      *)
(* flight between them.  Every step of the two programs at which a user    *)
(* interrupt (KeyboardInterrupt) or a socket error can change the control  *)
(* flow is one action.                                                     *)
(***************************************************************************)
EXTENDS Integers, Sequences, FiniteSets, TLC

VARIABLES
    \* ---- Prober (udp_echo_client.py) ----
    entry,          \* "main": started from the command line; "class": UDPEchoClient(...).run(...)
    packet_size,    \* args.size / self.packet_size
    count,          \* args.count / run's count
    log_path,       \* TRUE when a log path is set (self.log_path truthy)
    pc,             \* position of the Prober
    seq,            \* the loop variable of run
    payload,        \* the payload built by send_packet
    sock,           \* self.sock: "none", "open", "closed"
    log_file,       \* self.log_file / self.log_writer: "none", "open", "closed"
    sent_count, received_count, rtts,
    data,           \* (data, addr) returned by recvfrom
    log,            \* rows written to the CSV log
    console,        \* lines printed
    sleeps,         \* number of time.sleep(interval) calls made
    tx,             \* payloads handed to sendto that were transmitted
    intr,           \* positions at which a KeyboardInterrupt was raised
    entered,        \* TRUE once run has reached its try block (the probe loop)
    exit_code,      \* process exit status, -1 while running
    \* ---- datagrams in flight or buffered ----
    inbox,          \* towards the Prober's socket
    s_inbox,        \* towards the Responder's socket
    net,            \* "good": the network delivers every datagram before the
                    \* receiver's timeout and no socket call fails; "any": it
                    \* may also lose or delay datagrams and socket calls may fail;
                    \* "silent": as "any", and no host sends the Prober anything
    \* ---- Responder (udp_echo_server.py) ----
    s_pc, s_sock, s_log_file, s_packet_count, s_data, s_log, s_console,
    s_rx,           \* datagrams returned by the Responder's recvfrom
    s_tx,           \* datagrams transmitted by the Responder's sendto
    s_exc,          \* the exception propagating through the finally block
    s_intr, s_exit_code

cvars == <<entry, entered, packet_size, count, log_path, pc, seq, payload, sock, log_file,
           sent_count, received_count, rtts, data, log, console, sleeps, tx,
           intr, exit_code>>
svars == <<s_pc, s_sock, s_log_file, s_packet_count, s_data, s_log, s_console,
           s_rx, s_tx, s_exc, s_intr, s_exit_code>>
vars == <<cvars, svars, inbox, s_inbox, net>>

\* ---------------------------------------------------------------- bounds
MaxCount == 2
MaxFiller == 1
MaxInterrupts == 1
MaxRtt == 1
MaxDatagrams == 2
MaxSamples == 4
MaxSampleRtt == 3

\* ------------------------------------------------------ program constants
\* struct.calcsize('!Id'): 4-byte sequence + 8-byte timestamp
HeaderLen == 12

ClientAddr == "cli"
ServerAddr == "srv"
OtherAddr == "other"

NoData == [data |-> [seq |-> 0, len |-> 0], from |-> "none"]
NoPayload == [seq |-> 0, len |-> 0]

\* packet sizes tried: below the header, the header alone, header plus filler
PacketSizes == (HeaderLen - 1)..(HeaderLen + MaxFiller)

\* ------------------------------------------------------------ wire format
\* b'x' * n is empty for n <= 0
FillerLen(n) == IF n > 0 THEN n ELSE 0

\* struct.pack('!Id', sequence, timestamp) + b'x' * (packet_size - len(payload));
\* a datagram is its header sequence number and its length in bytes (the
\* timestamp bytes are never read back by either program)
MakePayload(sequence, size) ==
    [seq |-> sequence, len |-> HeaderLen + FillerLen(size - HeaderLen)]

\* struct.unpack('!Id', data[:12]) raises struct.error on fewer than 12 bytes
UnpackFails(d) == d.len < HeaderLen

\* ------------------------------------------------------------------- log
log_writer == log_file = "open"

\* variant of _log_row in which the timeout branch writes no row
LogRow_dropTimeout(sequence, status, size, from) ==
    IF log_writer /\ status # "timeout"
    THEN Append(log, [kind |-> "row", sequence |-> sequence, status |-> status,
                      size |-> size, from |-> from])
    ELSE log

\* _log_row: a no-op without a writer, else one row (flushed)
LogRow(sequence, status, size, from) ==
    IF log_writer
    THEN Append(log, [kind |-> "row", sequence |-> sequence, status |-> status,
                      size |-> size, from |-> from])
    ELSE log

\* loss_rate = ((sent - received) / sent) * 100 if sent > 0, else None: kept as
\* the exact fraction num/den, with defined = FALSE for None (no division)
LossRate(sent, received) ==
    IF sent > 0
    THEN [defined |-> TRUE, num |-> (sent - received) * 100, den |-> sent]
    ELSE [defined |-> FALSE, num |-> 0, den |-> 1]

\* ------------------------------------------------------- RTT statistics
Range(s) == {s[i] : i \in 1..Len(s)}

RECURSIVE Sum(_)
Sum(s) == IF s = <<>> THEN 0 ELSE Head(s) + Sum(Tail(s))

RECURSIVE SumSquares(_)
SumSquares(s) == IF s = <<>> THEN 0 ELSE Head(s) * Head(s) + SumSquares(Tail(s))

\* min(self.rtts), max(self.rtts)
Min(s) == CHOOSE x \in Range(s) : \A y \in Range(s) : x <= y
Max(s) == CHOOSE x \in Range(s) : \A y \in Range(s) : x >= y

\* sorted(self.rtts): ascending, equal samples kept
RECURSIVE sorted(_)
sorted(s) ==
    IF s = <<>>
    THEN <<>>
    ELSE LET rest == sorted(Tail(s))
         IN SelectSeq(rest, LAMBDA y : y < Head(s)) \o <<Head(s)>>
                \o SelectSeq(rest, LAMBDA y : y >= Head(s))

\* statistics.mean: the exact fraction num/den
Mean(s) == [num |-> Sum(s), den |-> Len(s)]

\* statistics.median: the middle sample of the sorted data, or the mean of the
\* two middle samples, as the exact fraction num/den
Median(s) ==
    LET srt == sorted(s)
        n == Len(s)
    IN IF n % 2 = 1
       THEN [num |-> srt[n \div 2 + 1], den |-> 1]
       ELSE [num |-> srt[n \div 2] + srt[n \div 2 + 1], den |-> 2]

\* statistics.stdev: the square root of the sample variance
\* sum((x - mean)^2) / (n - 1), kept as the exact fraction of the variance
\* (n * sum(x^2) - sum(x)^2) / (n * (n - 1)); StatisticsError below two samples
Stdev(s) ==
    IF Len(s) > 1
    THEN [var_num |-> Len(s) * SumSquares(s) - Sum(s) * Sum(s),
          var_den |-> Len(s) * (Len(s) - 1)]
    ELSE "StatisticsError"

\* variant of the index below that rounds up instead of truncating
PercentileIndex_roundUp(n, pct) == (n * pct + 99) \div 100

\* int(len(sorted_rtts) * 0.50), ... * 0.95, ... * 0.99 with pct = 50, 95, 99:
\* the product truncated towards zero (for these three factors the floating
\* point product truncates to the exact floor for every n up to 200000)
PercentileIndex(n, pct) == (n * pct) \div 100

\* sorted_rtts[i] with i >= 0: the element at the 0-based index i, IndexError
\* beyond the last one
Subscript(s, i) == IF i \in 0..(Len(s) - 1) THEN s[i + 1] ELSE "IndexError"

sorted_rtts == sorted(rtts)
p50 == Subscript(sorted_rtts, PercentileIndex(Len(sorted_rtts), 50))
p95 == Subscript(sorted_rtts, PercentileIndex(Len(sorted_rtts), 95))
p99 == Subscript(sorted_rtts, PercentileIndex(Len(sorted_rtts), 99))

\* the lines both summaries always have: the counters, and the loss rate when
\* there is one
CounterLines ==
    [kind |-> "stats", sent |-> sent_count, received |-> received_count,
     loss |-> LossRate(sent_count, received_count)]

\* the lines written under "if self.rtts:"
RttLines ==
    [min |-> Min(rtts), max |-> Max(rtts), mean |-> Mean(rtts),
     median |-> Median(rtts), p50 |-> p50, p95 |-> p95, p99 |-> p99]

\* variant of the summary below that reports zeros when there is no sample
Statistics_zeros ==
    IF rtts # <<>>
    THEN IF Len(rtts) > 1
         THEN CounterLines @@ RttLines @@ [stddev |-> Stdev(rtts)]
         ELSE CounterLines @@ RttLines
    ELSE CounterLines @@ [min |-> 0, max |-> 0, mean |-> [num |-> 0, den |-> 1],
                          median |-> [num |-> 0, den |-> 1],
                          p50 |-> 0, p95 |-> 0, p99 |-> 0]

\* variant of the summary below that reports a standard deviation of zero for
\* a single sample
Statistics_stddevZero ==
    IF rtts # <<>>
    THEN CounterLines @@ RttLines
            @@ [stddev |-> IF Len(rtts) > 1 THEN Stdev(rtts)
                           ELSE [var_num |-> 0, var_den |-> 1]]
    ELSE CounterLines @@ [no_rtt |-> TRUE]

\* what print_statistics and _log_statistics report, a record with one field
\* for each value written: the counters and the loss rate; when rtts is not
\* empty min, max, mean, median and the three percentiles, and the standard
\* deviation when there are at least two samples; otherwise the line
\* "No successful round-trips recorded"
Statistics ==
    IF rtts # <<>>
    THEN IF Len(rtts) > 1
         THEN CounterLines @@ RttLines @@ [stddev |-> Stdev(rtts)]
         ELSE CounterLines @@ RttLines
    ELSE CounterLines @@ [no_rtt |-> TRUE]

\* ---------------------------------------------------------------- Prober
InTry == {"loop", "sp_sendto", "sp_count", "sp_recvfrom", "sp_recvd", "sp_rtt",
          "sp_unpack", "sp_logok", "sp_timeout", "sp_error", "sleep"}
InFinally == {"finally_print", "finally_close_sock", "finally_log_stats",
              "finally_close_log"}
BeforeTry == {"main", "init", "init_log"}

Exit(code) == /\ pc' = "exited"
              /\ exit_code' = code

\* main: argument validation and the default log path
main_validate ==
    /\ pc = "main"
    /\ IF packet_size < HeaderLen
       THEN /\ console' = Append(console, [kind |-> "config_error"])
            /\ Exit(1)
            /\ UNCHANGED log_path
       ELSE /\ log_path' = TRUE
            /\ pc' = "init"
            /\ UNCHANGED <<console, exit_code>>
    /\ UNCHANGED <<net, entry, entered, packet_size, count, seq, payload, sock, log_file,
                   sent_count, received_count, rtts, data, log, sleeps, tx, intr>>
    /\ UNCHANGED <<svars, inbox, s_inbox>>

\* UDPEchoClient.__init__
UDPEchoClient_init ==
    /\ pc = "init"
    /\ sock' = "open"
    /\ rtts' = <<>>
    /\ sent_count' = 0
    /\ received_count' = 0
    /\ log_file' = "none"
    /\ pc' = "init_log"
    /\ UNCHANGED <<net, entry, entered, packet_size, count, log_path, seq, payload, data, log,
                   console, sleeps, tx, intr, exit_code>>
    /\ UNCHANGED <<svars, inbox, s_inbox>>

\* run up to the try block: the banner and _init_log
init_log ==
    /\ pc = "init_log"
    /\ \/ /\ ~log_path
          /\ pc' = "loop"
          /\ entered' = TRUE
          /\ UNCHANGED <<log_file, log, exit_code>>
       \/ /\ log_path
          /\ log_file' = "open"
          /\ log' = Append(log, [kind |-> "header"])
          /\ pc' = "loop"
          /\ entered' = TRUE
          /\ UNCHANGED exit_code
       \/ \* open() raises OSError: not inside any try
          /\ log_path
          /\ Exit(1)
          /\ UNCHANGED <<log_file, log, entered>>
    /\ UNCHANGED <<net, entry, packet_size, count, log_path, seq, payload, sock,
                   sent_count, received_count, rtts, data, console, sleeps, tx, intr>>
    /\ UNCHANGED <<svars, inbox, s_inbox>>

\* for seq in range(1, count + 1), and the payload built at the top of send_packet
run_loop ==
    /\ pc = "loop"
    /\ IF seq < count
       THEN /\ seq' = seq + 1
            /\ payload' = MakePayload(seq + 1, packet_size)
            /\ pc' = "sp_sendto"
       ELSE /\ pc' = "finally_print"
            /\ UNCHANGED <<seq, payload>>
    /\ UNCHANGED <<net, entry, entered, packet_size, count, log_path, sock, log_file,
                   sent_count, received_count, rtts, data, log, console, sleeps,
                   tx, intr, exit_code>>
    /\ UNCHANGED <<svars, inbox, s_inbox>>

\* the Responder's socket is bound and not yet closed
ServerListening == s_pc \in {"s_open_log", "s_recvfrom", "s_count", "s_sendto",
                             "s_log", "s_close_sock"}

\* the Prober's socket exists and is not yet closed
ClientSocketOpen == sock = "open" /\ pc # "exited"

\* the network neither loses a datagram sent to a bound socket nor delays it
\* past the receiver's timeout, and no socket call fails
GoodNetwork == net = "good"

\* a probe of the Prober, or the echo of one, is on its way to the Prober:
\* in flight to the Responder, held by the Responder, or in flight back
EchoPending ==
    \/ inbox # {}
    \/ ServerListening /\ \E m \in s_inbox : m.from = ClientAddr
    \/ s_pc \in {"s_count", "s_sendto"} /\ s_data.from = ClientAddr

\* self.sock.sendto(payload, (server_ip, server_port)): the datagram is handed to
\* the network, which carries it to the Responder's socket if one is bound there,
\* or loses it
send_packet_sendto ==
    /\ pc = "sp_sendto"
    /\ \/ /\ ServerListening
          /\ s_inbox' = s_inbox \cup {[data |-> payload, from |-> ClientAddr]}
          /\ tx' = Append(tx, payload)
          /\ pc' = "sp_count"
       \/ \* transmitted and lost on the way, or nobody listens
          /\ GoodNetwork => ~ServerListening
          /\ tx' = Append(tx, payload)
          /\ pc' = "sp_count"
          /\ UNCHANGED s_inbox
       \/ \* sendto raises OSError
          /\ ~GoodNetwork
          /\ pc' = "sp_error"
          /\ UNCHANGED <<s_inbox, tx>>
    /\ UNCHANGED <<net, entry, entered, packet_size, count, log_path, seq, payload, sock, log_file,
                   sent_count, received_count, rtts, data, log, console, sleeps,
                   intr, exit_code>>
    /\ UNCHANGED <<svars, inbox>>

\* variant of the step below in which the counter is not incremented
send_packet_count_sent_skipped ==
    /\ pc = "sp_count"
    /\ pc' = "sp_recvfrom"
    /\ UNCHANGED <<net, entry, entered, packet_size, count, log_path, seq, payload, sock,
                   log_file, sent_count, received_count, rtts, data, log, console,
                   sleeps, tx, intr, exit_code>>
    /\ UNCHANGED <<svars, inbox, s_inbox>>

\* self.sent_count += 1
send_packet_count_sent ==
    /\ pc = "sp_count"
    /\ sent_count' = sent_count + 1
    /\ pc' = "sp_recvfrom"
    /\ UNCHANGED <<net, entry, entered, packet_size, count, log_path, seq, payload, sock, log_file,
                   received_count, rtts, data, log, console, sleeps, tx, intr, exit_code>>
    /\ UNCHANGED <<svars, inbox, s_inbox>>

\* variant of the call below on a socket without timeout: it returns only when
\* a datagram has reached the socket
send_packet_recvfrom_blocking ==
    /\ pc = "sp_recvfrom"
    /\ \E m \in inbox :
          /\ data' = m
          /\ inbox' = inbox \ {m}
          /\ pc' = "sp_recvd"
    /\ UNCHANGED <<net, entry, entered, packet_size, count, log_path, seq, payload, sock,
                   log_file, sent_count, received_count, rtts, log, console, sleeps,
                   tx, intr, exit_code>>
    /\ UNCHANGED <<svars, s_inbox>>

\* data, addr = self.sock.recvfrom(65535), under the 2-second socket timeout:
\* an echo that reached the socket, socket.timeout, or another OSError
send_packet_recvfrom ==
    /\ pc = "sp_recvfrom"
    /\ \/ \E m \in inbox :
             /\ data' = m
             /\ inbox' = inbox \ {m}
             /\ pc' = "sp_recvd"
       \/ \* socket.timeout: nothing reached the socket within the timeout
          /\ GoodNetwork => ~EchoPending
          /\ pc' = "sp_timeout"
          /\ UNCHANGED <<data, inbox>>
       \/ \* any other OSError
          /\ ~GoodNetwork
          /\ pc' = "sp_error"
          /\ UNCHANGED <<data, inbox>>
    /\ UNCHANGED <<net, entry, entered, packet_size, count, log_path, seq, payload, sock, log_file,
                   sent_count, received_count, rtts, log, console, sleeps, tx,
                   intr, exit_code>>
    /\ UNCHANGED <<svars, s_inbox>>

\* The same recvfrom returning a datagram of any length that any host sent to
\* the Prober's port (the socket is not connected, so it accepts any sender).
\* The header sequence number of such a datagram is never read by the Prober:
\* 0 stands for any.
StrayDatagrams ==
    {[data |-> [seq |-> 0, len |-> l], from |-> a] :
        l \in {HeaderLen - 1, HeaderLen}, a \in {ServerAddr, OtherAddr}}

send_packet_recvfrom_any ==
    /\ pc = "sp_recvfrom"
    /\ net # "silent"
    /\ \E m \in StrayDatagrams : data' = m
    /\ pc' = "sp_recvd"
    /\ UNCHANGED <<net, entry, entered, packet_size, count, log_path, seq, payload, sock, log_file,
                   sent_count, received_count, rtts, log, console, sleeps, tx,
                   intr, exit_code>>
    /\ UNCHANGED <<svars, inbox, s_inbox>>

\* recv_time = time.time(); self.received_count += 1
send_packet_count_received ==
    /\ pc = "sp_recvd"
    /\ received_count' = received_count + 1
    /\ pc' = "sp_rtt"
    /\ UNCHANGED <<net, entry, entered, packet_size, count, log_path, seq, payload, sock, log_file,
                   sent_count, rtts, data, log, console, sleeps, tx, intr, exit_code>>
    /\ UNCHANGED <<svars, inbox, s_inbox>>

\* rtt_us = (recv_time - send_time) * 1_000_000; self.rtts.append(rtt_us)
\* (the two clock readings differ by rtt microseconds)
send_packet_append_rtt ==
    /\ pc = "sp_rtt"
    /\ \E rtt \in 1..MaxRtt : rtts' = Append(rtts, rtt)
    /\ pc' = "sp_unpack"
    /\ UNCHANGED <<net, entry, entered, packet_size, count, log_path, seq, payload, sock, log_file,
                   sent_count, received_count, data, log, console, sleeps, tx,
                   intr, exit_code>>
    /\ UNCHANGED <<svars, inbox, s_inbox>>

\* recv_seq, recv_ts = struct.unpack('!Id', data[:12]); recv_seq is not used
send_packet_unpack ==
    /\ pc = "sp_unpack"
    /\ pc' = IF UnpackFails(data.data) THEN "sp_error" ELSE "sp_logok"
    /\ UNCHANGED <<net, entry, entered, packet_size, count, log_path, seq, payload, sock, log_file,
                   sent_count, received_count, rtts, data, log, console, sleeps,
                   tx, intr, exit_code>>
    /\ UNCHANGED <<svars, inbox, s_inbox>>

\* the console line and the 'ok' row, then return
send_packet_log_ok ==
    /\ pc = "sp_logok"
    /\ console' = Append(console, [kind |-> "ok", sequence |-> seq])
    /\ log' = LogRow(seq, "ok", data.data.len, data.from)
    /\ pc' = "sleep"
    /\ data' = NoData
    /\ payload' = NoPayload
    /\ UNCHANGED <<net, entry, entered, packet_size, count, log_path, seq, sock, log_file,
                   sent_count, received_count, rtts, sleeps, tx, intr, exit_code>>
    /\ UNCHANGED <<svars, inbox, s_inbox>>

\* variant of the handler below that sends the same probe again
send_packet_log_timeout_resend ==
    /\ pc = "sp_timeout"
    /\ console' = Append(console, [kind |-> "timeout", sequence |-> seq])
    /\ log' = LogRow(seq, "timeout", 0, "none")
    /\ pc' = "sp_sendto"
    /\ data' = NoData
    /\ UNCHANGED <<net, entry, entered, packet_size, count, log_path, seq, payload, sock,
                   log_file, sent_count, received_count, rtts, sleeps, tx, intr,
                   exit_code>>
    /\ UNCHANGED <<svars, inbox, s_inbox>>

\* except socket.timeout
send_packet_log_timeout ==
    /\ pc = "sp_timeout"
    /\ console' = Append(console, [kind |-> "timeout", sequence |-> seq])
    /\ log' = LogRow(seq, "timeout", 0, "none")
    /\ pc' = "sleep"
    /\ data' = NoData
    /\ payload' = NoPayload
    /\ UNCHANGED <<net, entry, entered, packet_size, count, log_path, seq, sock, log_file,
                   sent_count, received_count, rtts, sleeps, tx, intr, exit_code>>
    /\ UNCHANGED <<svars, inbox, s_inbox>>

\* except Exception
send_packet_log_error ==
    /\ pc = "sp_error"
    /\ console' = Append(console, [kind |-> "error", sequence |-> seq])
    /\ log' = LogRow(seq, "error", 0, "none")
    /\ pc' = "sleep"
    /\ data' = NoData
    /\ payload' = NoPayload
    /\ UNCHANGED <<net, entry, entered, packet_size, count, log_path, seq, sock, log_file,
                   sent_count, received_count, rtts, sleeps, tx, intr, exit_code>>
    /\ UNCHANGED <<svars, inbox, s_inbox>>

\* variant of the step below that sleeps after every probe, the last included
run_sleep_always ==
    /\ pc = "sleep"
    /\ sleeps' = sleeps + 1
    /\ pc' = "loop"
    /\ UNCHANGED <<net, entry, entered, packet_size, count, log_path, seq, payload, sock,
                   log_file, sent_count, received_count, rtts, data, log, console, tx,
                   intr, exit_code>>
    /\ UNCHANGED <<svars, inbox, s_inbox>>

\* if seq < count: time.sleep(interval)
run_sleep ==
    /\ pc = "sleep"
    /\ sleeps' = IF seq < count THEN sleeps + 1 ELSE sleeps
    /\ pc' = "loop"
    /\ UNCHANGED <<net, entry, entered, packet_size, count, log_path, seq, payload, sock, log_file,
                   sent_count, received_count, rtts, data, log, console, tx,
                   intr, exit_code>>
    /\ UNCHANGED <<svars, inbox, s_inbox>>

\* finally: self.print_statistics()
print_statistics ==
    /\ pc = "finally_print"
    /\ console' = Append(console, Statistics)
    /\ pc' = "finally_close_sock"
    /\ UNCHANGED <<net, entry, entered, packet_size, count, log_path, seq, payload, sock, log_file,
                   sent_count, received_count, rtts, data, log, sleeps, tx,
                   intr, exit_code>>
    /\ UNCHANGED <<svars, inbox, s_inbox>>

\* finally: self.sock.close()
run_close_sock ==
    /\ pc = "finally_close_sock"
    /\ sock' = "closed"
    /\ pc' = "finally_log_stats"
    /\ UNCHANGED <<net, entry, entered, packet_size, count, log_path, seq, payload, log_file,
                   sent_count, received_count, rtts, data, log, console, sleeps,
                   tx, intr, exit_code>>
    /\ UNCHANGED <<svars, inbox, s_inbox>>

\* finally: self._log_statistics()
log_statistics ==
    /\ pc = "finally_log_stats"
    /\ log' = IF log_writer THEN Append(log, Statistics) ELSE log
    /\ pc' = "finally_close_log"
    /\ UNCHANGED <<net, entry, entered, packet_size, count, log_path, seq, payload, sock, log_file,
                   sent_count, received_count, rtts, data, console, sleeps, tx,
                   intr, exit_code>>
    /\ UNCHANGED <<svars, inbox, s_inbox>>

\* finally: self._close_log(), then run and main return
close_log ==
    /\ pc = "finally_close_log"
    /\ log_file' = IF log_file = "open" THEN "closed" ELSE log_file
    /\ Exit(0)
    /\ UNCHANGED <<net, entry, entered, packet_size, count, log_path, seq, payload, sock,
                   sent_count, received_count, rtts, data, log, console, sleeps,
                   tx, intr>>
    /\ UNCHANGED <<svars, inbox, s_inbox>>

\* variant of the interrupt below in which the teardown is not in a finally block:
\* the interrupt leaves run at once from every position
KeyboardInterrupt_uncaught ==
    /\ pc \in BeforeTry \cup InTry \cup InFinally
    /\ Len(intr) < MaxInterrupts
    /\ intr' = Append(intr, pc)
    /\ Exit(130)
    /\ data' = NoData
    /\ payload' = NoPayload
    /\ UNCHANGED <<net, entry, entered, packet_size, count, log_path, seq, sock, log_file,
                   sent_count, received_count, rtts, log, console, sleeps, tx>>
    /\ UNCHANGED <<svars, inbox, s_inbox>>

\* A user interrupt raises KeyboardInterrupt at the Prober's current position.
\* Inside run's try block it is caught (send_packet's "except Exception" does
\* not catch it) and the finally block follows; anywhere else it is uncaught.
\* Either way send_packet's locals are gone.
KeyboardInterrupt ==
    /\ pc \in BeforeTry \cup InTry \cup InFinally
    /\ Len(intr) < MaxInterrupts
    /\ intr' = Append(intr, pc)
    /\ IF pc \in InTry
       THEN /\ console' = Append(console, [kind |-> "interrupted"])
            /\ pc' = "finally_print"
            /\ UNCHANGED exit_code
       ELSE /\ Exit(130)
            /\ UNCHANGED console
    /\ data' = NoData
    /\ payload' = NoPayload
    /\ UNCHANGED <<net, entry, entered, packet_size, count, log_path, seq, sock, log_file,
                   sent_count, received_count, rtts, log, sleeps, tx>>
    /\ UNCHANGED <<svars, inbox, s_inbox>>

\* UDPEchoClient(...).run(...): the constructor and run
ProberRun ==
    \/ UDPEchoClient_init
    \/ init_log
    \/ run_loop
    \/ send_packet_sendto
    \/ send_packet_count_sent
    \/ send_packet_recvfrom
    \/ send_packet_count_received
    \/ send_packet_append_rtt
    \/ send_packet_unpack
    \/ send_packet_log_ok
    \/ send_packet_log_timeout
    \/ send_packet_log_error
    \/ run_sleep
    \/ print_statistics
    \/ run_close_sock
    \/ log_statistics
    \/ close_log
    \/ KeyboardInterrupt

\* the command-line program: main, which validates and then constructs and runs
Prober ==
    \/ main_validate
    \/ ProberRun

\* ------------------------------------------------------------- Responder
SInTry == {"s_recvfrom", "s_count", "s_sendto", "s_log"}
SInFinally == {"s_close_sock", "s_close_log"}
SBeforeTry == {"s_main", "s_bind", "s_open_log"}

SExit(code) == /\ s_pc' = "exited"
               /\ s_exit_code' = code

\* main: the arguments, the log path, socket.socket(...) and SO_REUSEADDR
server_socket ==
    /\ s_pc = "s_main"
    /\ s_sock' = "open"
    /\ s_pc' = "s_bind"
    /\ UNCHANGED <<s_log_file, s_packet_count, s_data, s_log, s_console, s_rx, s_tx,
                   s_exc, s_intr, s_exit_code>>
    /\ UNCHANGED <<net, cvars, inbox, s_inbox>>

\* variant of the step below that reports a failed bind and goes on
server_bind_continues ==
    /\ s_pc = "s_bind"
    /\ \/ s_console' = Append(s_console, [kind |-> "listening"])
       \/ s_console' = Append(s_console, [kind |-> "bind_error"])
    /\ s_pc' = "s_open_log"
    /\ UNCHANGED <<s_sock, s_log_file, s_packet_count, s_data, s_log, s_rx, s_tx,
                   s_exc, s_intr, s_exit_code>>
    /\ UNCHANGED <<net, cvars, inbox, s_inbox>>

\* sock.bind((SERVER_IP, args.port)); except OSError: print, sys.exit(1)
server_bind ==
    /\ s_pc = "s_bind"
    /\ \/ /\ s_console' = Append(s_console, [kind |-> "listening"])
          /\ s_pc' = "s_open_log"
          /\ UNCHANGED s_exit_code
       \/ /\ s_console' = Append(s_console, [kind |-> "bind_error"])
          /\ SExit(1)
    /\ UNCHANGED <<s_sock, s_log_file, s_packet_count, s_data, s_log, s_rx, s_tx,
                   s_exc, s_intr>>
    /\ UNCHANGED <<net, cvars, inbox, s_inbox>>

\* packet_count = 0; log_file = open(log_path, 'w'); the header row
server_open_log ==
    /\ s_pc = "s_open_log"
    /\ s_packet_count' = 0
    /\ \/ /\ s_log_file' = "open"
          /\ s_log' = Append(s_log, [kind |-> "header"])
          /\ s_pc' = "s_recvfrom"
          /\ UNCHANGED s_exit_code
       \/ \* open() raises OSError: not inside any try
          /\ SExit(1)
          /\ UNCHANGED <<s_log_file, s_log>>
    /\ UNCHANGED <<s_sock, s_data, s_console, s_rx, s_tx, s_exc, s_intr>>
    /\ UNCHANGED <<net, cvars, inbox, s_inbox>>

\* data, client_addr = sock.recvfrom(BUFFER_SIZE): blocks until a datagram is there
server_recvfrom ==
    /\ s_pc = "s_recvfrom"
    /\ \E m \in s_inbox :
          /\ s_data' = m
          /\ s_rx' = Append(s_rx, m)
          /\ s_inbox' = s_inbox \ {m}
    /\ s_pc' = "s_count"
    /\ UNCHANGED <<s_sock, s_log_file, s_packet_count, s_log, s_console, s_tx,
                   s_exc, s_intr, s_exit_code>>
    /\ UNCHANGED <<net, cvars, inbox>>

\* variant of the step below in which the counter is not incremented
server_count_skipped ==
    /\ s_pc = "s_count"
    /\ s_pc' = "s_sendto"
    /\ UNCHANGED <<s_sock, s_log_file, s_packet_count, s_data, s_log, s_console, s_rx,
                   s_tx, s_exc, s_intr, s_exit_code>>
    /\ UNCHANGED <<net, cvars, inbox, s_inbox>>

\* packet_count += 1
server_count ==
    /\ s_pc = "s_count"
    /\ s_packet_count' = s_packet_count + 1
    /\ s_pc' = "s_sendto"
    /\ UNCHANGED <<s_sock, s_log_file, s_data, s_log, s_console, s_rx, s_tx,
                   s_exc, s_intr, s_exit_code>>
    /\ UNCHANGED <<net, cvars, inbox, s_inbox>>

\* variant of the echo that sends back data[:12] only
Echo_headerOnly(m) ==
    [data |-> [seq |-> m.data.seq,
               len |-> IF m.data.len > HeaderLen THEN HeaderLen ELSE m.data.len],
     to |-> m.from]

\* the datagram the Responder builds for sendto(data, client_addr)
Echo(m) == [data |-> m.data, to |-> m.from]

\* variant of the step below in which the Responder sends nothing back
server_sendto_noEcho ==
    /\ s_pc = "s_sendto"
    /\ s_pc' = "s_log"
    /\ UNCHANGED <<s_sock, s_log_file, s_packet_count, s_data, s_log, s_console,
                   s_rx, s_tx, s_exc, s_intr, s_exit_code>>
    /\ UNCHANGED <<net, cvars, inbox, s_inbox>>

\* sock.sendto(data, client_addr): the echo is handed to the network, which
\* carries it to the sender's endpoint (the Prober's socket, if the Prober is
\* the sender and its socket is still there) or loses it
server_sendto ==
    /\ s_pc = "s_sendto"
    /\ \/ /\ s_tx' = Append(s_tx, Echo(s_data))
          /\ inbox' = IF Echo(s_data).to = ClientAddr /\ ClientSocketOpen
                      THEN inbox \cup {[data |-> Echo(s_data).data, from |-> ServerAddr]}
                      ELSE inbox
          /\ s_pc' = "s_log"
          /\ UNCHANGED s_exc
       \/ \* transmitted and lost on the way
          /\ ~GoodNetwork
          /\ s_tx' = Append(s_tx, Echo(s_data))
          /\ s_pc' = "s_log"
          /\ UNCHANGED <<inbox, s_exc>>
       \/ \* sendto raises OSError: no except clause catches it
          /\ ~GoodNetwork
          /\ s_exc' = "OSError"
          /\ s_pc' = "s_close_sock"
          /\ UNCHANGED <<inbox, s_tx>>
    /\ UNCHANGED <<s_sock, s_log_file, s_packet_count, s_data, s_log, s_console,
                   s_rx, s_intr, s_exit_code>>
    /\ UNCHANGED <<net, cvars, s_inbox>>

\* the console line and the log row (flushed)
server_log ==
    /\ s_pc = "s_log"
    /\ s_console' = Append(s_console, [kind |-> "packet", packet |-> s_packet_count])
    /\ s_log' = Append(s_log, [kind |-> "row", packet |-> s_packet_count,
                               size |-> s_data.data.len, from |-> s_data.from])
    /\ s_pc' = "s_recvfrom"
    /\ UNCHANGED <<s_sock, s_log_file, s_packet_count, s_data, s_rx, s_tx, s_exc,
                   s_intr, s_exit_code>>
    /\ UNCHANGED <<net, cvars, inbox, s_inbox>>

\* finally: sock.close()
server_close_sock ==
    /\ s_pc = "s_close_sock"
    /\ s_sock' = "closed"
    /\ s_pc' = "s_close_log"
    /\ UNCHANGED <<s_log_file, s_packet_count, s_data, s_log, s_console, s_rx, s_tx,
                   s_exc, s_intr, s_exit_code>>
    /\ UNCHANGED <<net, cvars, inbox, s_inbox>>

\* finally: log_file.close(), then main returns or the exception propagates
server_close_log ==
    /\ s_pc = "s_close_log"
    /\ s_log_file' = "closed"
    /\ SExit(IF s_exc = "none" THEN 0 ELSE 1)
    /\ UNCHANGED <<s_sock, s_packet_count, s_data, s_log, s_console, s_rx, s_tx,
                   s_exc, s_intr>>
    /\ UNCHANGED <<net, cvars, inbox, s_inbox>>

\* A user interrupt raises KeyboardInterrupt at the Responder's current position:
\* caught inside the try block (shutdown message, total, then finally),
\* uncaught anywhere else.
server_KeyboardInterrupt ==
    /\ s_pc \in SBeforeTry \cup SInTry \cup SInFinally
    /\ Len(s_intr) < MaxInterrupts
    /\ s_intr' = Append(s_intr, s_pc)
    /\ IF s_pc \in SInTry
       THEN /\ s_console' = Append(s_console, [kind |-> "shutdown", total |-> s_packet_count])
            /\ s_pc' = "s_close_sock"
            /\ UNCHANGED s_exit_code
       ELSE /\ SExit(130)
            /\ UNCHANGED s_console
    /\ UNCHANGED <<s_sock, s_log_file, s_packet_count, s_data, s_log, s_rx, s_tx, s_exc>>
    /\ UNCHANGED <<net, cvars, inbox, s_inbox>>

\* the Responder left to run by its operator
ResponderRun ==
    \/ server_socket
    \/ server_bind
    \/ server_open_log
    \/ server_recvfrom
    \/ server_count
    \/ server_sendto
    \/ server_log
    \/ server_close_sock
    \/ server_close_log

Responder ==
    \/ ResponderRun
    \/ server_KeyboardInterrupt

\* ------------------------------------------------------------ the network
\* a host other than the Prober sends the Responder a datagram of any length
ThirdAddr == "third"
ClientSends ==
    /\ s_pc = "s_recvfrom"
    /\ Len(s_rx) + Cardinality(s_inbox) < MaxDatagrams
    /\ \E q \in 0..1, l \in {0, HeaderLen - 1, HeaderLen, HeaderLen + MaxFiller},
          a \in {OtherAddr, ThirdAddr} :
          s_inbox' = s_inbox \cup {[data |-> [seq |-> q, len |-> l], from |-> a]}
    /\ UNCHANGED <<net, cvars, svars, inbox>>

\* --------------------------------------------------------- specifications
ProberFresh ==
    /\ packet_size \in PacketSizes
    /\ count \in 0..MaxCount
    /\ log_path \in BOOLEAN
    /\ seq = 0
    /\ payload = NoPayload
    /\ sock = "none"
    /\ log_file = "none"
    /\ sent_count = 0
    /\ received_count = 0
    /\ rtts = <<>>
    /\ data = NoData
    /\ log = <<>>
    /\ console = <<>>
    /\ sleeps = 0
    /\ tx = <<>>
    /\ intr = <<>>
    /\ entered = FALSE
    /\ exit_code = -1
    /\ inbox = {}
    /\ s_inbox = {}

\* started from the command line with any --size, --count and with or without --log
InitProber ==
    /\ entry = "main"
    /\ pc = "main"
    /\ ProberFresh
    /\ net = "any"

\* UDPEchoClient(server_ip, server_port, packet_size, log_path).run(count) called
\* directly, with any packet_size and with or without a log path
InitProberClass ==
    /\ entry = "class"
    /\ pc = "init"
    /\ ProberFresh
    /\ net = "any"

ResponderIdle ==
    /\ s_pc = "exited"
    /\ s_sock = "none"
    /\ s_log_file = "none"
    /\ s_packet_count = 0
    /\ s_data = NoData
    /\ s_log = <<>>
    /\ s_console = <<>>
    /\ s_rx = <<>>
    /\ s_tx = <<>>
    /\ s_exc = "none"
    /\ s_intr = <<>>
    /\ s_exit_code = -1

\* The command-line Prober alone: any host may send it datagrams, and nobody
\* listens on the Responder's port.
Init == InitProber /\ ResponderIdle

Next ==
    \/ Prober
    \/ send_packet_recvfrom_any

Spec == Init /\ [][Next]_vars

\* The steps the Prober takes by itself as long as its process runs: every
\* statement is executed in its turn, a recvfrom returns or raises after at
\* most the socket timeout, and a sleep returns after the interval.  A user
\* interrupt and a datagram from another host may happen but need not.
ProberProgress ==
    \/ main_validate
    \/ UDPEchoClient_init
    \/ init_log
    \/ run_loop
    \/ send_packet_sendto
    \/ send_packet_count_sent
    \/ send_packet_recvfrom
    \/ send_packet_count_received
    \/ send_packet_append_rtt
    \/ send_packet_unpack
    \/ send_packet_log_ok
    \/ send_packet_log_timeout
    \/ send_packet_log_error
    \/ run_sleep
    \/ print_statistics
    \/ run_close_sock
    \/ log_statistics
    \/ close_log

SpecFair == Init /\ [][Next]_vars /\ WF_vars(ProberProgress)

\* The summary functions on any sample set: the Prober at the start of its
\* teardown after a run of n probes that were all answered, with any n up to
\* MaxSamples and any RTT samples in any order.
SampleSets ==
    UNION {[1..n -> 1..MaxSampleRtt] : n \in 0..MaxSamples}

InitStats ==
    /\ entry = "main"
    /\ pc = "finally_print"
    /\ packet_size = HeaderLen
    /\ log_path = TRUE
    /\ rtts \in SampleSets
    /\ count = Len(rtts)
    /\ seq = Len(rtts)
    /\ sent_count = Len(rtts)
    /\ received_count = Len(rtts)
    /\ payload = NoPayload
    /\ data = NoData
    /\ sock = "open"
    /\ log_file = "open"
    /\ log = <<[kind |-> "header"]>> \o
               [i \in 1..Len(rtts) |->
                   [kind |-> "row", sequence |-> i, status |-> "ok",
                    size |-> HeaderLen, from |-> ServerAddr]]
    /\ console = [i \in 1..Len(rtts) |-> [kind |-> "ok", sequence |-> i]]
    /\ sleeps = IF Len(rtts) > 0 THEN Len(rtts) - 1 ELSE 0
    /\ tx = [i \in 1..Len(rtts) |-> MakePayload(i, HeaderLen)]
    /\ intr = <<>>
    /\ entered = TRUE
    /\ exit_code = -1
    /\ inbox = {}
    /\ s_inbox = {}
    /\ net = "any"
    /\ ResponderIdle

NextStats ==
    \/ print_statistics
    \/ run_close_sock
    \/ log_statistics
    \/ close_log

SpecStats == InitStats /\ [][NextStats]_vars

\* The same, with the Prober started through its class instead of main.
InitClass == InitProberClass /\ ResponderIdle

NextClass ==
    \/ ProberRun
    \/ send_packet_recvfrom_any

SpecClass == InitClass /\ [][NextClass]_vars

ProberIdle ==
    /\ entry = "class"
    /\ packet_size = HeaderLen
    /\ count = 0
    /\ log_path = FALSE
    /\ pc = "exited"
    /\ seq = 0
    /\ payload = NoPayload
    /\ sock = "none"
    /\ log_file = "none"
    /\ sent_count = 0
    /\ received_count = 0
    /\ rtts = <<>>
    /\ data = NoData
    /\ log = <<>>
    /\ console = <<>>
    /\ sleeps = 0
    /\ tx = <<>>
    /\ intr = <<>>
    /\ entered = FALSE
    /\ exit_code = -1
    /\ inbox = {}
    /\ s_inbox = {}
    /\ net = "any"

ResponderStart ==
    /\ s_pc = "s_main"
    /\ s_sock = "none"
    /\ s_log_file = "none"
    /\ s_packet_count = 0
    /\ s_data = NoData
    /\ s_log = <<>>
    /\ s_console = <<>>
    /\ s_rx = <<>>
    /\ s_tx = <<>>
    /\ s_exc = "none"
    /\ s_intr = <<>>
    /\ s_exit_code = -1

\* the Responder against hosts that send it anything
InitResponder == ProberIdle /\ ResponderStart

NextResponder ==
    \/ Responder
    \/ ClientSends

SpecResponder == InitResponder /\ [][NextResponder]_vars

\* the Prober against a Responder that its operator does not interrupt: the
\* only datagrams that reach the Prober are the Responder's echoes, which the
\* network may lose or hold back for any time
InitEcho == InitProber /\ ResponderStart

NextEcho ==
    \/ Prober
    \/ ResponderRun

SpecEcho == InitEcho /\ [][NextEcho]_vars

\* The command-line Prober probing a port on which nobody listens, while other
\* hosts may send datagrams to its socket or no host sends it anything.
InitSilent ==
    /\ entry = "main"
    /\ pc = "main"
    /\ ProberFresh
    /\ net \in {"any", "silent"}
    /\ ResponderIdle

SpecSilent == InitSilent /\ [][Next]_vars

\* the Responder after socket, bind and open have succeeded: blocked in its
\* first recvfrom
ResponderLive ==
    /\ s_pc = "s_recvfrom"
    /\ s_sock = "open"
    /\ s_log_file = "open"
    /\ s_packet_count = 0
    /\ s_data = NoData
    /\ s_log = <<[kind |-> "header"]>>
    /\ s_console = <<[kind |-> "listening"]>>
    /\ s_rx = <<>>
    /\ s_tx = <<>>
    /\ s_exc = "none"
    /\ s_intr = <<>>
    /\ s_exit_code = -1

\* the Prober started against a Responder that is already listening, over a
\* good network or over any network
InitLive ==
    /\ entry = "main"
    /\ pc = "main"
    /\ ProberFresh
    /\ net \in {"good", "any"}
    /\ ResponderLive

\* the Responder's loop, and its exit when its sendto fails
ResponderLoop ==
    \/ server_recvfrom
    \/ server_count
    \/ server_sendto
    \/ server_log
    \/ server_close_sock
    \/ server_close_log

NextLive ==
    \/ Prober
    \/ ResponderLoop

SpecLive == InitLive /\ [][NextLive]_vars

\* ------------------------------------------------------------- properties
IsRow(r) == r.kind = "row"
IsOk(r) == r.kind = "row" /\ r.status = "ok"
IsStats(r) == r.kind = "stats"

\* the per-probe rows of the Prober's log, in the order written
OutcomeRows == SelectSeq(log, IsRow)
OkRows == SelectSeq(log, IsOk)

\* the run went through its loop and its teardown without any interrupt
RunEndedUncancelled == pc = "exited" /\ entered /\ intr = <<>>

\* an interrupt was raised while the finally block was running
TeardownInterrupted == \E i \in 1..Len(intr) : intr[i] \in InFinally

\* C1: the outcome rows written so far always carry the sequence numbers
\* 1, 2, 3, ... in order (no duplicate, no gap), each with status ok, timeout
\* or error, and at the end of a run that was not cancelled there is exactly
\* one such row for every sequence number 1..packet_count.
C1_OneRowPerSequence ==
    /\ \A i \in 1..Len(OutcomeRows) :
          /\ OutcomeRows[i].sequence = i
          /\ OutcomeRows[i].status \in {"ok", "timeout", "error"}
    /\ RunEndedUncancelled => Len(OutcomeRows) = count

C1_Witness ==
    /\ RunEndedUncancelled
    /\ count = 2
    /\ Len(OutcomeRows) = 2
    /\ OutcomeRows[1].status = "timeout"
    /\ OutcomeRows[2].status = "ok"

\* C2: against the echo Responder, whenever the Prober is about to record an Ok
\* outcome for sequence number n, the reply it accepted is the echo of probe n:
\* it comes from the Responder and carries sequence number n.
C2_OkFromOwnEcho ==
    pc = "sp_logok" => (data.from = ServerAddr /\ data.data.seq = seq)

\* C3: at the end of every run that was not cancelled, sent_count equals
\* packet_count, whatever the outcome of each probe was.
C3_SentEqualsPacketCount ==
    RunEndedUncancelled => sent_count = count

\* C4: when a run cancelled by a user interrupt in its loop has ended, every
\* probe that was transmitted and counted in sent_count has exactly one outcome
\* row in the log.
C4_CancelledRowPerSentProbe ==
    (pc = "exited" /\ entered /\ intr # <<>>) =>
        \A i \in 1..Len(tx) :
            i <= sent_count =>
                Cardinality({j \in 1..Len(OutcomeRows) :
                                OutcomeRows[j].sequence = tx[i].seq}) = 1

\* C5: at the end of a run (here: one that no interrupt cut short), received_count
\* equals the number of probes logged with status ok, and the RTT sample set
\* holds exactly one sample per ok probe.
C5_ReceivedMatchesOkRows ==
    RunEndedUncancelled =>
        /\ received_count = Len(OkRows)
        /\ Len(rtts) = Len(OkRows)

\* the statistics summary has been printed / written to the log
SummaryOnConsole == \E i \in 1..Len(console) : IsStats(console[i])
SummaryInLog == Len(log) > 0 /\ IsStats(log[Len(log)])

\* C6: every run that has entered its probe loop and has ended, whether the loop
\* finished normally or an interrupt was raised in any iteration (and none during
\* the teardown itself), has printed the statistics summary, has written it to
\* the log, has closed its socket and has closed the log.
C6_TeardownComplete ==
    (pc = "exited" /\ entered /\ ~TeardownInterrupted) =>
        /\ SummaryOnConsole
        /\ SummaryInLog
        /\ sock = "closed"
        /\ log_file = "closed"

C6_Witness ==
    /\ pc = "exited"
    /\ entered
    /\ intr = <<"sp_recvfrom">>
    /\ seq = 2
    /\ SummaryInLog
    /\ sock = "closed"

\* C7: when the Prober or the Responder has exited, on any path, no socket it
\* created is still open and no log file it opened is still open.
C7_ResourcesReleasedAtExit ==
    /\ (pc = "exited" /\ exit_code # -1) => (sock # "open" /\ log_file # "open")
    /\ (s_pc = "exited" /\ s_exit_code # -1) => (s_sock # "open" /\ s_log_file # "open")

\* C8: the k-th datagram the Responder transmits has the bytes of the k-th
\* datagram it received and goes to the endpoint that one came from; no received
\* datagram is echoed twice; and whenever the Responder is about to receive, it
\* has echoed every datagram received so far.
C8_EchoVerbatimToSender ==
    /\ Len(s_tx) <= Len(s_rx)
    /\ Len(s_rx) <= Len(s_tx) + 1
    /\ \A i \in 1..Len(s_tx) :
          /\ s_tx[i].data = s_rx[i].data
          /\ s_tx[i].to = s_rx[i].from
    /\ s_pc = "s_recvfrom" => Len(s_tx) = Len(s_rx)

C8_Witness ==
    /\ s_pc = "s_recvfrom"
    /\ Len(s_tx) = 2
    /\ s_tx[1].data.len < HeaderLen
    /\ s_tx[2].data.len > HeaderLen
    /\ s_tx[1].to # s_tx[2].to

\* C9: a packet_size below 12 is rejected before any socket is created or any
\* datagram is sent, whichever entry point starts the run; for a packet_size of
\* 12 or more every transmitted payload has length exactly packet_size.
C9_SizeValidated ==
    /\ packet_size < HeaderLen => (sock = "none" /\ tx = <<>>)
    /\ packet_size >= HeaderLen =>
          \A i \in 1..Len(tx) : tx[i].len = packet_size

\* the statistics summaries emitted so far, on the console and in the log
EmittedStats ==
    {console[i] : i \in {j \in 1..Len(console) : IsStats(console[j])}}
        \cup {log[i] : i \in {j \in 1..Len(log) : IsStats(log[j])}}

\* C10: received_count <= sent_count <= packet_count in every state; every
\* summary emitted with sent > 0 reports the loss rate (sent - received) / sent
\* * 100, which lies in 0..100; with sent = 0 it reports no loss rate and
\* divides by nothing.
C10_CountersAndLossRate ==
    /\ received_count <= sent_count
    /\ sent_count <= count
    /\ \A r \in EmittedStats :
          /\ r.loss.den > 0
          /\ r.sent = 0 => ~r.loss.defined
          /\ r.sent > 0 =>
                /\ r.loss.defined
                /\ r.loss.num * r.sent = (r.sent - r.received) * 100 * r.loss.den
                /\ 0 <= r.loss.num
                /\ r.loss.num <= 100 * r.loss.den

C10_Witness ==
    \E r \in EmittedStats :
        /\ r.kind = "stats"
        /\ r.sent = 2
        /\ r.received = 1
        /\ r.loss.defined
        /\ SummaryInLog

\* C11: over a good network and against a listening Responder, a run that is
\* not cancelled ends with sent_count = packet_count, received_count =
\* packet_count and packet_count log rows, every one of status ok
C11_AllProbesAnswered ==
    (GoodNetwork /\ RunEndedUncancelled) =>
        /\ sent_count = count
        /\ received_count = count
        /\ Len(OutcomeRows) = count
        /\ \A i \in 1..Len(OutcomeRows) :
              OutcomeRows[i].sequence = i /\ OutcomeRows[i].status = "ok"

C11_Witness ==
    /\ GoodNetwork
    /\ RunEndedUncancelled
    /\ count = MaxCount
    /\ Len(OkRows) = MaxCount
    /\ Len(s_tx) = MaxCount

\* the fields of a summary whose values are computed from the RTT samples
RttFields == {"min", "max", "mean", "median", "stddev", "p50", "p95", "p99"}

\* C12: when no reply ever reaches the Prober, received_count stays 0 and no
\* summary, on the console or in the log, has a field computed from RTT
\* samples; a run that is not cancelled writes one row for each of the
\* sequence numbers 1..packet_count, none of status ok, and emits both
\* summaries
C12_NoReplyNoRttFields ==
    net = "silent" =>
    /\ received_count = 0
    /\ \A r \in EmittedStats :
          /\ r.received = 0
          /\ DOMAIN r \cap RttFields = {}
          /\ "no_rtt" \in DOMAIN r
    /\ RunEndedUncancelled =>
          /\ Len(OutcomeRows) = count
          /\ \A i \in 1..count :
                /\ OutcomeRows[i].sequence = i
                /\ OutcomeRows[i].status \in {"timeout", "error"}
          /\ SummaryOnConsole
          /\ SummaryInLog

C12_Witness ==
    /\ net = "silent"
    /\ RunEndedUncancelled
    /\ count = MaxCount
    /\ sent_count = MaxCount
    /\ Len(OutcomeRows) = MaxCount
    /\ OutcomeRows[1].status = "timeout"
    /\ OutcomeRows[MaxCount].status = "error"
    /\ \E r \in EmittedStats : r.sent = MaxCount /\ "no_rtt" \in DOMAIN r
    /\ SummaryInLog

\* the Responder printed that it could not bind
BindFailed == \E i \in 1..Len(s_console) : s_console[i].kind = "bind_error"

\* C13: once the Responder has reported that it cannot bind, it has exited
\* with status 1, it has received no datagram and echoed none, and its log has
\* no row (the log file was never opened)
C13_BindFailureExits ==
    BindFailed =>
        /\ s_pc = "exited"
        /\ s_exit_code = 1
        /\ s_rx = <<>>
        /\ s_tx = <<>>
        /\ s_log = <<>>
        /\ s_log_file = "none"

C13_Witness ==
    /\ BindFailed
    /\ s_pc = "exited"
    /\ s_exit_code = 1
    /\ s_sock = "open"

\* the data rows of the Responder's log, in the order written
ServerRows == SelectSeq(s_log, IsRow)

\* C14: the i-th data row of the Responder's log has packet index i and the size
\* and sender of the i-th datagram received; whenever the Responder is back at
\* recvfrom there are exactly as many rows as datagrams received, and at any
\* other time at most the datagram being processed has no row yet
C14_OneRowPerDatagram ==
    /\ Len(ServerRows) <= Len(s_rx)
    /\ Len(s_rx) <= Len(ServerRows) + 1
    /\ \A i \in 1..Len(ServerRows) :
          /\ ServerRows[i].packet = i
          /\ ServerRows[i].size = s_rx[i].data.len
          /\ ServerRows[i].from = s_rx[i].from
    /\ s_pc = "s_recvfrom" => Len(ServerRows) = Len(s_rx)

C14_Witness ==
    /\ s_pc = "s_recvfrom"
    /\ Len(s_rx) = 2
    /\ Len(ServerRows) = 2
    /\ s_rx[1].from # s_rx[2].from
    /\ s_rx[1].data.len # s_rx[2].data.len

\* C15: in a run that has entered its loop, the socket is released only after
\* the summary has been written to the log, and the log is closed only after
\* the summary has been written to it
C15_SummaryLoggedBeforeSocketReleased ==
    entered =>
        /\ sock = "closed" => SummaryInLog
        /\ log_file = "closed" => SummaryInLog

\* the totals the Responder printed on being interrupted
ShutdownTotals ==
    {s_console[i].total : i \in {j \in 1..Len(s_console) : s_console[j].kind = "shutdown"}}

\* C16: the total that the interrupted Responder reports is the number of
\* datagrams it has echoed and the number it has logged; afterwards it
\* releases the socket only once the log is closed, and exits with both done
C16_ShutdownTotalAndOrder ==
    ShutdownTotals # {} =>
        /\ \A t \in ShutdownTotals : t = Len(s_tx) /\ t = Len(ServerRows)
        /\ s_sock = "closed" => s_log_file = "closed"
        /\ s_pc = "exited" => (s_sock = "closed" /\ s_log_file = "closed")

\* C17: the probes transmitted so far carry strictly increasing sequence
\* numbers from 1..packet_count (so none is transmitted twice), the i-th of
\* them a number of at least i, and every one of them but the last has its
\* outcome row in the log: at most one probe is awaiting its outcome
C17_IncreasingNoResend ==
    /\ \A i \in 1..Len(tx) : tx[i].seq \in i..count
    /\ \A i, j \in 1..Len(tx) : i < j => tx[i].seq < tx[j].seq
    /\ \A i \in 1..(Len(tx) - 1) :
          \E k \in 1..Len(OutcomeRows) : OutcomeRows[k].sequence = tx[i].seq
    /\ Cardinality({i \in 1..Len(tx) :
                       \A k \in 1..Len(OutcomeRows) :
                          OutcomeRows[k].sequence # tx[i].seq}) <= 1

C17_Witness ==
    /\ Len(tx) = 2
    /\ tx[2].seq = 2
    /\ Len(OutcomeRows) = 1
    /\ OutcomeRows[1].status = "timeout"
    /\ pc = "sp_recvfrom"

\* C18: every run of the Prober ends, and a run that entered its loop and was
\* not cancelled ends after the loop has reached sequence number packet_count
\* and recorded an outcome for each sequence number
C18_RunTerminates ==
    /\ <>(pc = "exited")
    /\ [](RunEndedUncancelled => (seq = count /\ Len(OutcomeRows) = count))

C18_Witness ==
    /\ RunEndedUncancelled
    /\ count = MaxCount
    /\ seq = MaxCount
    /\ received_count = 0
    /\ \A i \in 1..Len(OutcomeRows) : OutcomeRows[i].status = "timeout"
    /\ exit_code = 0

\* C19: for every non-empty sample set of size n the three percentile indices
\* lie in 0..n-1 of the sorted samples, which are the samples in ascending
\* order, and every summary emitted reports min <= p50 <= p95 <= p99 <= max
C19_PercentilesInRange ==
    rtts # <<>> =>
        /\ Len(sorted_rtts) = Len(rtts)
        /\ Range(sorted_rtts) = Range(rtts)
        /\ \A i, j \in 1..Len(sorted_rtts) : i < j => sorted_rtts[i] <= sorted_rtts[j]
        /\ \A pct \in {50, 95, 99} :
              PercentileIndex(Len(sorted_rtts), pct) \in 0..(Len(sorted_rtts) - 1)
        /\ \A r \in EmittedStats :
              /\ r.min <= r.p50
              /\ r.p50 <= r.p95
              /\ r.p95 <= r.p99
              /\ r.p99 <= r.max

C19_Witness ==
    /\ Len(rtts) = MaxSamples
    /\ rtts[1] > rtts[MaxSamples]
    /\ SummaryOnConsole
    /\ SummaryInLog
    /\ \E r \in EmittedStats : r.min < r.p50 /\ r.p50 < r.p95 /\ r.p99 = r.max

\* C20: every summary emitted, on the console and in the log (which report the
\* same), has the standard deviation exactly when the run recorded at least
\* two RTT samples; with exactly one sample it has min, max, mean, median and
\* the percentiles but no standard deviation
C20_StddevIffTwoSamples ==
    /\ Cardinality(EmittedStats) <= 1
    /\ \A r \in EmittedStats :
          /\ ("stddev" \in DOMAIN r) <=> (Len(rtts) >= 2)
          /\ Len(rtts) = 1 =>
                /\ {"min", "max", "mean", "median", "p50", "p95", "p99"} \subseteq DOMAIN r
                /\ "stddev" \notin DOMAIN r

C20_Witness ==
    /\ Len(rtts) = 1
    /\ Len(OkRows) = 1
    /\ SummaryOnConsole
    /\ SummaryInLog
    /\ \E r \in EmittedStats :
          /\ r.received = 1
          /\ r.min = r.max
          /\ "stddev" \notin DOMAIN r

\* C21: as long as no interrupt was raised, the Prober has slept once for each
\* probe whose outcome is recorded and that is not the last: while probe seq
\* is being sent and awaited, and until its row is written and the sleep after
\* it is due, seq - 1 sleeps have been made and seq - 1 rows written; after
\* the sleep step there is one sleep per row, except that the last row is
\* followed by none.  A run that was not cancelled ends with packet_count - 1
\* sleeps for packet_count >= 1 (and none for packet_count = 0).
C21_OneSleepBetweenProbes ==
    (entered /\ intr = <<>>) =>
        /\ pc \in InTry \ {"loop", "sleep"} =>
              (sleeps = seq - 1 /\ Len(OutcomeRows) = seq - 1)
        /\ pc = "sleep" => (sleeps = seq - 1 /\ Len(OutcomeRows) = seq)
        /\ pc = "loop" =>
              /\ Len(OutcomeRows) = seq
              /\ sleeps = IF seq < count THEN seq
                          ELSE IF count >= 1 THEN count - 1 ELSE 0
        /\ pc \in InFinally \cup {"exited"} =>
              sleeps = IF count >= 1 THEN count - 1 ELSE 0

C21_Witness ==
    /\ RunEndedUncancelled
    /\ count = MaxCount
    /\ sleeps = MaxCount - 1
    /\ Len(OutcomeRows) = MaxCount
    /\ OutcomeRows[1].status = "error"
    /\ OutcomeRows[MaxCount].status = "timeout"

====
